---- MODULE Spec2Model ----
(***************************************************************************)
(* SimpleCache (resources/lib/files/simplecache.py): a two-tier TTL cache. *)
(* The ephemeral tier is the host's window-property store (win), the       *)
(* durable tier a single sqlite table (db).  Engine instances share both   *)
(* tiers and the class-level busy-task list; each has its own deferred     *)
(* queue and its own exit flag.  Calls are made by threads; set, close and *)
(* the cleanup pass are modelled statement by statement so that calls of   *)
(* different threads interleave, get is one step.                          *)
(***************************************************************************)
EXTENDS Integers, Sequences, FiniteSets, Bags, TLC

\* ------------------------------------------------------------ constants
TIME_MINUTES == 60
TIME_HOURS == 60 * TIME_MINUTES
TIME_DAYS == 24 * TIME_HOURS
auto_clean_interval == 4 * TIME_HOURS
\* _execute_sql gives up when retries == 10
MaxRetries == 10
\* _get_database(attempts=2)
OpenAttempts == 2

\* ------------------------------------------------------------ bounds
\* host events (the clock advances, the override changes, a property is
\* cleared from outside) in one behaviour
MaxEvents == 1
\* tuples a deferred queue may hold before set is no longer called
MaxQueue == 2
\* calls of set, close and check_cleanup in one behaviour
MaxCalls == 2
\* cleanup passes called directly in one behaviour
MaxPasses == 2

\* ------------------------------------------------------------ inputs
Insts == {1, 2}
Endpoints == {"e1", "e2"}
\* strings are sequences of code points: "" , "v1", "v2", "1v"
StrEmpty == <<>>
StrV1 == <<118, 49>>
StrV2 == <<118, 50>>
Str1V == <<49, 118>>
Checksums == {StrEmpty, StrV1, StrV2, Str1V}
\* global_checksum: None (modelled as the empty string, equally falsy) or "g"
StrG == <<103>>
GlobalChecksums == {StrEmpty, StrG}
\* python values handed to set: strings and a tuple; a list comes back from json
PyStr(s) == [type |-> "str", val |-> s]
PyTuple(s) == [type |-> "tuple", val |-> s]
PyList(s) == [type |-> "list", val |-> s]
Data == {PyStr("a"), PyTuple("1,2")}
Ttls == {0, 1}
TickSteps == {1, TIME_DAYS}
\* what the store does to one statement: runs it; reports "database is
\* locked" on every attempt; raises another sqlite3.OperationalError; raises
\* another exception; fails the integrity probe (the file is recreated);
\* cannot be opened or recreated on any attempt
Faults == {"ok", "locked", "operr", "exc", "corrupt", "noopen"}

VARIABLES
    now,             \* the wall clock, integer seconds
    events,          \* host events so far
    calls,           \* calls made so far
    passes,          \* cleanup passes called so far
    py3,             \* the interpreter: Python 3 (Matrix) or Python 2 (Leia)
    abort,           \* xbmc.Monitor().abortRequested()
    global_checksum, \* SimpleCache.global_checksum
    win,             \* window properties holding cache entries
    cleanbusy,       \* property "<sc_name>.cleanbusy" is set
    lastexecuted,    \* property "<sc_name>.clean.lastexecuted": <<>> or <<t>>
    db,              \* table simplecache: id -> <<>> or <<row>>
    busy_tasks,      \* SimpleCache._busy_tasks (class level): a bag of labels
    live,            \* instance constructed
    mem_only,        \* self._mem_only
    delaywrite,      \* self._delaywrite
    exit,            \* self._exit
    queue,           \* self._queue
    pc,              \* each thread's position
    frame,           \* each thread's locals
    last             \* the step taken last and what it returned

vars == <<now, events, calls, passes, py3, abort, global_checksum, win, cleanbusy,
          lastexecuted, db, busy_tasks, live, mem_only, delaywrite, exit,
          queue, pc, frame, last>>

AllThreads == {"t1", "t2"}

\* ------------------------------------------------------------ helpers
\* json_dumps / json_loads: a tuple is written as an array and read as a list
JsonDumps(v) == [json |-> IF v.type = "str" THEN "string" ELSE "array", val |-> v.val]
JsonLoads(s) == [type |-> IF s.json = "string" THEN "str" ELSE "list", val |-> s.val]

\* pickle_deepcopy: an equal value
PickleDeepcopy(v) == v

\* set_timestamp(wait_time, True): the clock plus the offset
SetTimestamp(wait_time) == now + wait_time

RECURSIVE SumOrd(_)
SumOrd(s) == IF s = <<>> THEN 0 ELSE Head(s) + SumOrd(Tail(s))

\* _get_checksum
GetChecksum(stringinput) ==
    IF stringinput = <<>> /\ global_checksum = <<>> THEN 0
    ELSE IF global_checksum # <<>>
         THEN SumOrd(global_checksum \o <<45>> \o stringinput)
         ELSE SumOrd(stringinput)

\* property names
MemKey(endpoint) == <<"sc_name", endpoint>>
RawKey(cache_id) == <<"", cache_id>>
Keys == {MemKey(e) : e \in Endpoints} \cup {RawKey(e) : e \in Endpoints}

\* busy-task labels
SetLabel(endpoint) == <<"set", endpoint>>
ModuleLabel == <<"__name__", "simplecache">>
BusyAdd(label) == busy_tasks (+) SetToBag({label})
\* a release that removes nothing
BusyKeep(label) == busy_tasks
BusyRemove(label) == busy_tasks (-) SetToBag({label})

\* table simplecache with no row
EmptyTable == [e \in Endpoints |-> <<>>]

NoFrame == [i |-> 0, endpoint |-> "", checksum |-> 0, expires |-> 0, data |-> <<>>,
            cin |-> <<>>, ttl |-> 0, cur_time |-> 0, force |-> FALSE,
            rows |-> {}, seen |-> {}, table |-> EmptyTable,
            idx |-> 0, n |-> 0, fault |-> "ok", via |-> <<>>,
            attempts |-> 0, opens |-> 0, caught |-> FALSE]

NoEvent == [op |-> "", t |-> "", i |-> 0, endpoint |-> "", cin |-> <<>>, data |-> <<>>,
            ttl |-> 0, checksum |-> 0, expires |-> 0,
            val |-> <<>>, src |-> "", err |-> FALSE, fault |-> "",
            prev |-> <<>>, q |-> <<>>, mem |-> <<>>, row |-> <<>>, n |-> 0,
            rows |-> {}, table |-> EmptyTable, cur_time |-> 0]

Init ==
    /\ now = 0
    /\ events = 0
    /\ calls = 0
    /\ passes = 0
    /\ py3 \in BOOLEAN
    /\ abort = FALSE
    /\ global_checksum = <<>>
    /\ win = [k \in Keys |-> <<>>]
    /\ cleanbusy = FALSE
    /\ lastexecuted = <<>>
    /\ db = [e \in Endpoints |-> <<>>]
    /\ busy_tasks = EmptyBag
    /\ live = [i \in Insts |-> FALSE]
    /\ mem_only = [i \in Insts |-> FALSE]
    /\ delaywrite = [i \in Insts |-> FALSE]
    /\ exit = [i \in Insts |-> FALSE]
    /\ queue = [i \in Insts |-> <<>>]
    /\ pc = [t \in AllThreads |-> "idle"]
    /\ frame = [t \in AllThreads |-> NoFrame]
    /\ last = NoEvent

\* ------------------------------------------------------------ the two tiers
\* the triple written in the order of the parameters instead of
\* [expires, data, checksum]
SetMemCacheSwapped(endpoint, checksum, expires, data) ==
    [win EXCEPT ![MemKey(endpoint)] =
        <<[expires |-> checksum, data |-> JsonDumps(data), checksum |-> expires]>>]

\* _set_mem_cache: the property holds json_dumps([expires, data, checksum])
SetMemCache(endpoint, checksum, expires, data) ==
    [win EXCEPT ![MemKey(endpoint)] =
        <<[expires |-> expires, data |-> JsonDumps(data), checksum |-> checksum]>>]

\* _get_mem_cache, line 128: int(cachedata[0]) <= cur_time
MemExpired(expires, cur_time) == expires <= cur_time

\* the comparison off by one: an entry expiring now still counts as valid
DbExpiredLate(expires, cur_time) == expires < cur_time

\* _get_db_cache, line 150: int(cache_data[0]) <= cur_time
DbExpired(expires, cur_time) == expires <= cur_time

\* the empty checksum no longer passes
ChecksumMatchesStrict(checksum, stored) == checksum = stored

\* the stored checksum is not compared
ChecksumIgnored(checksum, stored) == TRUE

\* lines 130 and 152: not checksum or checksum == stored
ChecksumMatches(checksum, stored) == checksum = 0 \/ checksum = stored

\* _get_mem_cache: <<>> for None, <<value>> for a hit
GetMemCache(endpoint, checksum, cur_time) ==
    LET cachedata == win[MemKey(endpoint)]
    IN  IF cachedata = <<>> THEN <<>>
        ELSE IF MemExpired(cachedata[1].expires, cur_time) THEN <<>>
        ELSE IF ChecksumMatches(checksum, cachedata[1].checksum)
             THEN <<JsonLoads(cachedata[1].data)>>
             ELSE <<>>

\* _get_database: a store that fails the probe is deleted and recreated empty;
\* one that cannot be opened is left as it is and no connection comes back
DbOpened(fault) == IF fault = "corrupt" THEN EmptyTable ELSE db

\* _execute_sql: "ok" the statement ran, "none" the call returned None,
\* "raise" an exception left the call.  No connection: `with None` raises.
\* Python 3 unbinds `error` at the end of the except clause, so the log line
\* after the loop raises UnboundLocalError once an OperationalError was caught;
\* Python 2 retries a locked statement MaxRetries times and returns None.
ExecuteSql(i, fault) ==
    IF fault = "noopen" THEN "raise"
    ELSE IF abort THEN "none"
    ELSE IF exit[i] THEN "none"
    ELSE IF fault \in {"ok", "corrupt"} THEN "ok"
    ELSE IF fault \in {"locked", "operr"} THEN (IF py3 THEN "raise" ELSE "none")
    ELSE "none"

\* the row INSERT OR REPLACE writes
Row(checksum, expires, data) ==
    [expires |-> expires, data |-> JsonDumps(data), checksum |-> checksum]

\* INSERT OR IGNORE in place of INSERT OR REPLACE: an existing row stays
SetDbCacheKeepsRow(i, endpoint, checksum, expires, data, fault) ==
    IF ExecuteSql(i, fault) = "ok" /\ DbOpened(fault)[endpoint] = <<>>
    THEN [DbOpened(fault) EXCEPT ![endpoint] = <<Row(checksum, expires, data)>>]
    ELSE DbOpened(fault)

\* _set_db_cache: the table after the call
SetDbCache(i, endpoint, checksum, expires, data, fault) ==
    IF ExecuteSql(i, fault) = "ok"
    THEN [DbOpened(fault) EXCEPT ![endpoint] = <<Row(checksum, expires, data)>>]
    ELSE DbOpened(fault)

\* _get_db_cache: whether the row is returned
DbHit(i, endpoint, checksum, cur_time, fault) ==
    LET row == DbOpened(fault)[endpoint]
    IN  /\ ExecuteSql(i, fault) = "ok"
        /\ row # <<>>
        /\ ~DbExpired(row[1].expires, cur_time)
        /\ ChecksumMatches(checksum, row[1].checksum)

\* _get_db_cache, line 154: the ephemeral tier after a hit
Repopulate(endpoint, checksum, row) ==
    SetMemCache(endpoint, checksum, row.expires, JsonLoads(row.data))

Event(op, t, i) == [NoEvent EXCEPT !.op = op, !.t = t, !.i = i]

\* ------------------------------------------------------------ construction
\* _do_cleanup, lines 184-188: nothing when exiting or aborted, else the pass
\* registers its busy task and reads the clock
CleanupEnters(i) == ~exit[i] /\ ~abort

CleanupFrame(i, force) ==
    [NoFrame EXCEPT !.i = i, !.force = force, !.cur_time = SetTimestamp(0)]

\* check_cleanup, line 115
CleanupDue == lastexecuted[1] + SetTimestamp(auto_clean_interval) < SetTimestamp(0)

\* check_cleanup on instance i by thread t
CheckCleanupBody(t, i, mo, ex) ==
    IF mo
    THEN UNCHANGED <<lastexecuted, busy_tasks, pc, frame>>
    ELSE IF lastexecuted = <<>>
    THEN /\ lastexecuted' = <<SetTimestamp(0)>>
         /\ UNCHANGED <<busy_tasks, pc, frame>>
    ELSE IF CleanupDue /\ ~ex /\ ~abort
    THEN /\ busy_tasks' = BusyAdd(ModuleLabel)
         /\ pc' = [pc EXCEPT ![t] = "cl_check"]
         /\ frame' = [frame EXCEPT ![t] = CleanupFrame(i, FALSE)]
         /\ UNCHANGED lastexecuted
    ELSE UNCHANGED <<lastexecuted, busy_tasks, pc, frame>>

\* __init__
Construct(t, i, mo, dw) ==
    /\ pc[t] = "idle"
    /\ ~live[i]
    /\ live' = [live EXCEPT ![i] = TRUE]
    /\ mem_only' = [mem_only EXCEPT ![i] = mo]
    /\ delaywrite' = [delaywrite EXCEPT ![i] = dw]
    /\ CheckCleanupBody(t, i, mo, FALSE)
    /\ last' = Event("init", t, i)
    /\ UNCHANGED <<now, events, calls, passes, py3, abort, global_checksum, win, cleanbusy,
                   db, exit, queue>>

\* check_cleanup, called by the addon
CheckCleanup(t, i) ==
    /\ pc[t] = "idle"
    /\ live[i]
    /\ calls < MaxCalls
    /\ calls' = calls + 1
    /\ CheckCleanupBody(t, i, mem_only[i], exit[i])
    /\ last' = Event("check_cleanup", t, i)
    /\ UNCHANGED <<now, events, passes, py3, abort, global_checksum, win, cleanbusy,
                   db, live, mem_only, delaywrite, exit, queue>>

\* ------------------------------------------------------------ get
Get(t, i, endpoint, cin, fault) ==
    /\ pc[t] = "idle"
    /\ live[i]
    /\ LET checksum == GetChecksum(cin)
           cur_time == SetTimestamp(0)
           mem == GetMemCache(endpoint, checksum, cur_time)
           hit == DbHit(i, endpoint, checksum, cur_time, fault)
           row == DbOpened(fault)[endpoint]
           prev == IF last.op = "set" /\ last.i = i /\ last.endpoint = endpoint
                      /\ last.cin = cin /\ ~last.err
                   THEN <<[data |-> last.data[1], ttl |-> last.ttl,
                           checksum |-> last.checksum, expires |-> last.expires,
                           fault |-> last.fault]>>
                   ELSE <<>>
           ev == [Event("get", t, i) EXCEPT !.endpoint = endpoint, !.cin = cin,
                                            !.prev = prev,
                                            !.mem = win[MemKey(endpoint)],
                                            !.row = db[endpoint]]
       IN  IF mem # <<>> \/ mem_only[i]
           THEN /\ fault = "ok"
                /\ last' = [ev EXCEPT !.val = mem, !.fault = "ok",
                                      !.src = IF mem # <<>> THEN "mem" ELSE "none"]
                /\ UNCHANGED <<win, db>>
           ELSE /\ db' = DbOpened(fault)
                /\ win' = IF hit THEN Repopulate(endpoint, checksum, row[1]) ELSE win
                /\ last' = [ev EXCEPT !.val = IF hit THEN <<JsonLoads(row[1].data)>> ELSE <<>>,
                                      !.fault = fault,
                                      !.src = IF hit THEN "db" ELSE "none",
                                      !.err = (ExecuteSql(i, fault) = "raise")]
    /\ UNCHANGED <<now, events, calls, passes, py3, abort, global_checksum, cleanbusy,
                   lastexecuted, busy_tasks, live, mem_only, delaywrite, exit, queue, pc,
                   frame>>

\* ------------------------------------------------------------ set
\* lines 94-97: the busy task is registered, checksum and expiry are computed
SetBegin(t, i, endpoint, data, cin, ttl) ==
    /\ pc[t] = "idle"
    /\ live[i]
    /\ calls < MaxCalls
    /\ Len(queue[i]) < MaxQueue
    /\ calls' = calls + 1
    /\ busy_tasks' = BusyAdd(SetLabel(endpoint))
    /\ frame' = [frame EXCEPT ![t] =
                    [NoFrame EXCEPT !.i = i, !.endpoint = endpoint, !.data = <<data>>,
                                    !.cin = cin, !.ttl = ttl,
                                    !.checksum = GetChecksum(cin),
                                    !.expires = SetTimestamp(ttl * TIME_DAYS)]]
    /\ pc' = [pc EXCEPT ![t] = "set_mem"]
    /\ last' = Event("set_begin", t, i)
    /\ UNCHANGED <<now, events, passes, py3, abort, global_checksum, win, cleanbusy, lastexecuted,
                   db, live, mem_only, delaywrite, exit, queue>>

SetEvent(t, f) ==
    [Event("set", t, f.i) EXCEPT !.endpoint = f.endpoint, !.cin = f.cin,
                                 !.data = f.data, !.ttl = f.ttl,
                                 !.checksum = f.checksum, !.expires = f.expires]

\* lines 98-100: the ephemeral write, and the return of a mem-only engine
SetMem(t) ==
    /\ pc[t] = "set_mem"
    /\ LET f == frame[t]
       IN  /\ win' = SetMemCache(f.endpoint, f.checksum, f.expires, f.data[1])
           /\ IF mem_only[f.i]
              THEN /\ busy_tasks' = BusyRemove(SetLabel(f.endpoint))
                   /\ pc' = [pc EXCEPT ![t] = "idle"]
                   /\ frame' = [frame EXCEPT ![t] = NoFrame]
                   /\ last' = [SetEvent(t, f) EXCEPT !.fault = "ok"]
              ELSE /\ pc' = [pc EXCEPT ![t] = "set_store"]
                   /\ last' = Event("set_mem", t, f.i)
                   /\ UNCHANGED <<busy_tasks, frame>>
    /\ UNCHANGED <<now, events, calls, passes, py3, abort, global_checksum, cleanbusy,
                   lastexecuted, db, live, mem_only, delaywrite, exit, queue>>

\* lines 101-104: the tuple is queued or the row written; the busy task is
\* released on the way out
SetStore(t, fault) ==
    /\ pc[t] = "set_store"
    /\ LET f == frame[t]
       IN  /\ IF delaywrite[f.i]
              THEN /\ fault = "ok"
                   /\ queue' = [queue EXCEPT ![f.i] = Append(@,
                                   [endpoint |-> f.endpoint, checksum |-> f.checksum,
                                    expires |-> f.expires,
                                    data |-> PickleDeepcopy(f.data[1])])]
                   /\ last' = [SetEvent(t, f) EXCEPT !.fault = "ok"]
                   /\ UNCHANGED db
              ELSE /\ db' = SetDbCache(f.i, f.endpoint, f.checksum, f.expires, f.data[1], fault)
                   /\ last' = [SetEvent(t, f) EXCEPT !.fault = fault,
                                  !.err = (ExecuteSql(f.i, fault) = "raise")]
                   /\ UNCHANGED queue
           /\ busy_tasks' = BusyRemove(SetLabel(f.endpoint))
    /\ pc' = [pc EXCEPT ![t] = "idle"]
    /\ frame' = [frame EXCEPT ![t] = NoFrame]
    /\ UNCHANGED <<now, events, calls, passes, py3, abort, global_checksum, win, cleanbusy,
                   lastexecuted, live, mem_only, delaywrite, exit>>

\* ------------------------------------------------------------ close
\* the first fault a call met
Worst(old, fault) == IF old = "ok" THEN fault ELSE old

\* line 54
\* the flag of every engine is set
ExitSetAll(i) == [j \in Insts |-> TRUE]

\* line 54: self._exit = True binds an attribute of this instance; the class
\* attribute of line 32, which the other instances read, stays False
ExitSet(i) == [exit EXCEPT ![i] = TRUE]

\* lines 52-54; the event records the flags as they were
CloseBegin(t, i) ==
    /\ pc[t] = "idle"
    /\ live[i]
    /\ ~exit[i]
    /\ calls < MaxCalls
    /\ calls' = calls + 1
    /\ exit' = ExitSet(i)
    /\ pc' = [pc EXCEPT ![t] = "close_wait"]
    /\ frame' = [frame EXCEPT ![t] = [NoFrame EXCEPT !.i = i]]
    /\ last' = [Event("close_begin", t, i) EXCEPT !.prev = <<exit>>]
    /\ UNCHANGED <<now, events, passes, py3, abort, global_checksum, win, cleanbusy,
                   lastexecuted, db, busy_tasks, live, mem_only, delaywrite, queue>>

\* line 56: the loop is left when the busy-task list is empty or abort is requested
WaitOver == busy_tasks = EmptyBag \/ abort

\* lines 56-57
CloseWait(t) ==
    /\ pc[t] = "close_wait"
    /\ WaitOver
    /\ pc' = [pc EXCEPT ![t] = "close_flush"]
    /\ frame' = [frame EXCEPT ![t].idx = 1]
    /\ last' = Event("close_wait", t, frame[t].i)
    /\ UNCHANGED <<now, events, calls, passes, py3, abort, global_checksum, win, cleanbusy,
                   lastexecuted, db, busy_tasks, live, mem_only, delaywrite, exit, queue>>

\* lines 60-61: one turn of the loop over self._queue (the list iterator sees
\* tuples appended meanwhile); the loop ends when the index is past the list
CloseFlush(t, fault) ==
    /\ pc[t] = "close_flush"
    /\ LET f == frame[t]
           q == queue[f.i]
       IN  IF f.idx <= Len(q)
           THEN /\ db' = SetDbCache(f.i, q[f.idx].endpoint, q[f.idx].checksum,
                                    q[f.idx].expires, q[f.idx].data, fault)
                /\ IF ExecuteSql(f.i, fault) = "raise"
                   THEN /\ pc' = [pc EXCEPT ![t] = "idle"]
                        /\ frame' = [frame EXCEPT ![t] = NoFrame]
                        /\ last' = [Event("close", t, f.i) EXCEPT !.err = TRUE,
                                        !.fault = Worst(f.fault, fault), !.q = q]
                   ELSE /\ pc' = pc
                        /\ frame' = [frame EXCEPT ![t].idx = f.idx + 1,
                                                  ![t].fault = Worst(f.fault, fault)]
                        /\ last' = [Event("close_flush", t, f.i) EXCEPT !.fault = fault]
           ELSE /\ fault = "ok"
                /\ pc' = [pc EXCEPT ![t] = "close_clear"]
                /\ last' = Event("close_flushed", t, f.i)
                /\ UNCHANGED <<db, frame>>
    /\ UNCHANGED <<now, events, calls, passes, py3, abort, global_checksum, win, cleanbusy,
                   lastexecuted, busy_tasks, live, mem_only, delaywrite, exit, queue>>

\* line 62
CloseClear(t) ==
    /\ pc[t] = "close_clear"
    /\ queue' = [queue EXCEPT ![frame[t].i] = <<>>]
    /\ pc' = [pc EXCEPT ![t] = "idle"]
    /\ frame' = [frame EXCEPT ![t] = NoFrame]
    /\ last' = [Event("close", t, frame[t].i) EXCEPT !.q = queue[frame[t].i],
                    !.fault = frame[t].fault]
    /\ UNCHANGED <<now, events, calls, passes, py3, abort, global_checksum, win, cleanbusy,
                   lastexecuted, db, busy_tasks, live, mem_only, delaywrite, exit>>

\* ------------------------------------------------------------ cleanup
\* _do_cleanup(force), lines 184-189
DoCleanup(t, i, force) ==
    /\ pc[t] = "idle"
    /\ live[i]
    /\ passes < MaxPasses
    /\ passes' = passes + 1
    /\ IF CleanupEnters(i)
       THEN /\ busy_tasks' = BusyAdd(ModuleLabel)
            /\ pc' = [pc EXCEPT ![t] = "cl_check"]
            /\ frame' = [frame EXCEPT ![t] =
                            [CleanupFrame(i, force) EXCEPT !.via =
                                IF last.op = "cleanup" /\ last.src = "done"
                                   /\ last.fault = "ok" /\ last.val # <<>> /\ force
                                THEN <<last.n>> ELSE <<>>]]
            /\ last' = Event("cleanup_begin", t, i)
       ELSE /\ last' = [Event("cleanup", t, i) EXCEPT !.src = "noop"]
            /\ UNCHANGED <<busy_tasks, pc, frame>>
    /\ UNCHANGED <<now, events, calls, py3, abort, global_checksum, win, cleanbusy,
                   lastexecuted, db, live, mem_only, delaywrite, exit, queue>>

\* what a pass records when it returns: how it ended, the first fault it met,
\* whether it was forced, the time it started, the table it selected from and
\* the rows it enumerated and, for a forced pass that
\* follows a forced pass completed on a healthy store, the rows that one
\* enumerated
CleanupEvent(t, how, err, fault) ==
    [Event("cleanup", t, frame[t].i) EXCEPT !.src = how, !.err = err,
        !.fault = Worst(frame[t].fault, fault),
        !.val = IF frame[t].force THEN <<"force">> ELSE <<>>,
        !.n = frame[t].n, !.prev = frame[t].via,
        !.rows = frame[t].seen, !.table = frame[t].table,
        !.cur_time = frame[t].cur_time]

\* leaving the `with self.busy_tasks(__name__)` block by return or exception
CleanupLeaves(t) ==
    /\ busy_tasks' = BusyRemove(ModuleLabel)
    /\ pc' = [pc EXCEPT ![t] = "idle"]
    /\ frame' = [frame EXCEPT ![t] = NoFrame]

\* lines 190-191
ClCheck(t) ==
    /\ pc[t] = "cl_check"
    /\ IF cleanbusy
       THEN /\ CleanupLeaves(t)
            /\ last' = CleanupEvent(t, "skipped", FALSE, "ok")
       ELSE /\ pc' = [pc EXCEPT ![t] = "cl_mark"]
            /\ last' = Event("cl_check", t, frame[t].i)
            /\ UNCHANGED <<busy_tasks, frame>>
    /\ UNCHANGED <<now, events, calls, passes, py3, abort, global_checksum, win, cleanbusy,
                   lastexecuted, db, live, mem_only, delaywrite, exit, queue>>

\* line 192
ClMark(t) ==
    /\ pc[t] = "cl_mark"
    /\ cleanbusy' = TRUE
    /\ pc' = [pc EXCEPT ![t] = "cl_select"]
    /\ last' = Event("cl_mark", t, frame[t].i)
    /\ UNCHANGED <<now, events, calls, passes, py3, abort, global_checksum, win,
                   lastexecuted, db, busy_tasks, live, mem_only, delaywrite, exit, queue,
                   frame>>

\* the rows SELECT id, expires FROM simplecache returns
SelectRows(table) ==
    {[id |-> e, expires |-> table[e][1].expires] : e \in {x \in Endpoints : table[x] # <<>>}}

\* lines 194-195: self._execute_sql(query).fetchall(); None has no fetchall
ClSelect(t, fault) ==
    /\ pc[t] = "cl_select"
    /\ db' = DbOpened(fault)
    /\ IF ExecuteSql(frame[t].i, fault) = "ok"
       THEN /\ pc' = [pc EXCEPT ![t] = "cl_row"]
            /\ frame' = [frame EXCEPT ![t].rows = SelectRows(DbOpened(fault)),
                                      ![t].seen = SelectRows(DbOpened(fault)),
                                      ![t].table = DbOpened(fault),
                                      ![t].n = Cardinality(SelectRows(DbOpened(fault))),
                                      ![t].fault = Worst(@, fault)]
            /\ last' = [Event("cl_select", t, frame[t].i) EXCEPT !.fault = fault]
            /\ UNCHANGED busy_tasks
       ELSE /\ CleanupLeaves(t)
            /\ last' = CleanupEvent(t, "failed", TRUE, fault)
    /\ UNCHANGED <<now, events, calls, passes, py3, abort, global_checksum, win, cleanbusy,
                   lastexecuted, live, mem_only, delaywrite, exit, queue>>

\* a row expiring at the time of the pass counts as expired
CleanupExpiredInclusive(expires, cur_time) == expires <= cur_time

\* line 203: int(cache_expires) < cur_time
CleanupExpired(expires, cur_time) == expires < cur_time

\* line 201: self._win.clearProperty(cache_id)
ClearedKey(cache_id) == RawKey(cache_id)

\* force is not looked at
DeletesExpiredOnly(force, expires, cur_time) == expires < cur_time

\* line 203: whether the row is deleted
Deletes(force, expires, cur_time) == force \/ CleanupExpired(expires, cur_time)

\* lines 204-205: the table after DELETE FROM simplecache WHERE id = ?
DeleteRow(i, cache_id, fault) ==
    IF ExecuteSql(i, fault) = "ok"
    THEN [DbOpened(fault) EXCEPT ![cache_id] = <<>>]
    ELSE DbOpened(fault)

\* lines 196-206: one turn of the loop over the rows
ClRow(t, r, fault) ==
    /\ pc[t] = "cl_row"
    /\ r \in frame[t].rows
    /\ LET f == frame[t]
       IN  IF exit[f.i] \/ abort
           THEN /\ fault = "ok"
                /\ CleanupLeaves(t)
                /\ last' = CleanupEvent(t, "abandoned", FALSE, "ok")
                /\ UNCHANGED <<win, db>>
           ELSE /\ win' = [win EXCEPT ![ClearedKey(r.id)] = <<>>]
                /\ IF Deletes(f.force, r.expires, f.cur_time)
                   THEN /\ db' = DeleteRow(f.i, r.id, fault)
                        /\ IF ExecuteSql(f.i, fault) = "raise"
                           THEN /\ CleanupLeaves(t)
                                /\ last' = CleanupEvent(t, "failed", TRUE, fault)
                           ELSE /\ frame' = [frame EXCEPT ![t].rows = f.rows \ {r},
                                                          ![t].fault = Worst(@, fault)]
                                /\ last' = [Event("cl_row", t, f.i) EXCEPT !.fault = fault,
                                                !.endpoint = r.id]
                                /\ UNCHANGED <<busy_tasks, pc>>
                   ELSE /\ fault = "ok"
                        /\ frame' = [frame EXCEPT ![t].rows = f.rows \ {r}]
                        /\ last' = [Event("cl_row", t, f.i) EXCEPT !.fault = fault,
                                        !.endpoint = r.id]
                        /\ UNCHANGED <<db, busy_tasks, pc>>
    /\ UNCHANGED <<now, events, calls, passes, py3, abort, global_checksum, cleanbusy,
                   lastexecuted, live, mem_only, delaywrite, exit, queue>>

\* lines 209-214: VACUUM, then the washup after the with block
ClFinish(t, fault) ==
    /\ pc[t] = "cl_row"
    /\ frame[t].rows = {}
    /\ db' = DbOpened(fault)
    /\ CleanupLeaves(t)
    /\ IF ExecuteSql(frame[t].i, fault) = "raise"
       THEN /\ last' = CleanupEvent(t, "failed", TRUE, fault)
            /\ UNCHANGED <<lastexecuted, cleanbusy>>
       ELSE /\ lastexecuted' = <<frame[t].cur_time>>
            /\ cleanbusy' = FALSE
            /\ last' = CleanupEvent(t, "done", FALSE, fault)
    /\ UNCHANGED <<now, events, calls, passes, py3, abort, global_checksum, win,
                   live, mem_only, delaywrite, exit, queue>>

\* ------------------------------------------------------------ _do_delete
\* lines 164-169: the exit and abort test, then the busy task and cur_time
DoDelete(t, i) ==
    /\ pc[t] = "idle"
    /\ live[i]
    /\ passes < MaxPasses
    /\ passes' = passes + 1
    /\ IF CleanupEnters(i)
       THEN /\ busy_tasks' = BusyAdd(ModuleLabel)
            /\ pc' = [pc EXCEPT ![t] = "del_mark"]
            /\ frame' = [frame EXCEPT ![t] = CleanupFrame(i, TRUE)]
            /\ last' = Event("delete_begin", t, i)
       ELSE /\ last' = [Event("delete", t, i) EXCEPT !.src = "noop"]
            /\ UNCHANGED <<busy_tasks, pc, frame>>
    /\ UNCHANGED <<now, events, calls, py3, abort, global_checksum, win, cleanbusy,
                   lastexecuted, db, live, mem_only, delaywrite, exit, queue>>

\* what _do_delete records when it returns: how it ended, the first fault it
\* met, the time it started and the table it deleted from
DeleteEvent(t, how, err, fault) ==
    [Event("delete", t, frame[t].i) EXCEPT !.src = how, !.err = err,
        !.fault = Worst(frame[t].fault, fault),
        !.table = frame[t].table, !.cur_time = frame[t].cur_time]

\* line 171: the marker is set, whatever it was; the event records whether it
\* was set already
DelMark(t) ==
    /\ pc[t] = "del_mark"
    /\ cleanbusy' = TRUE
    /\ pc' = [pc EXCEPT ![t] = "del_delete"]
    /\ last' = [Event("del_mark", t, frame[t].i) EXCEPT
                    !.val = IF cleanbusy THEN <<"busy">> ELSE <<>>]
    /\ UNCHANGED <<now, events, calls, passes, py3, abort, global_checksum, win,
                   lastexecuted, db, busy_tasks, live, mem_only, delaywrite, exit, queue,
                   frame>>

\* the table after DELETE FROM simplecache
DeleteAll(i, fault) ==
    IF ExecuteSql(i, fault) = "ok" THEN EmptyTable ELSE DbOpened(fault)

\* lines 173-174: self._execute_sql('DELETE FROM simplecache')
DelDelete(t, fault) ==
    /\ pc[t] = "del_delete"
    /\ db' = DeleteAll(frame[t].i, fault)
    /\ IF ExecuteSql(frame[t].i, fault) = "raise"
       THEN /\ last' = [DeleteEvent(t, "failed", TRUE, fault) EXCEPT
                           !.table = DbOpened(fault)]
            /\ CleanupLeaves(t)
       ELSE /\ pc' = [pc EXCEPT ![t] = "del_finish"]
            /\ frame' = [frame EXCEPT ![t].table = DbOpened(fault),
                                      ![t].fault = Worst(@, fault)]
            /\ last' = [Event("del_delete", t, frame[t].i) EXCEPT !.fault = fault]
            /\ UNCHANGED busy_tasks
    /\ UNCHANGED <<now, events, calls, passes, py3, abort, global_checksum, win, cleanbusy,
                   lastexecuted, live, mem_only, delaywrite, exit, queue>>

\* lines 175-180: VACUUM, then the washup after the with block
DelFinish(t, fault) ==
    /\ pc[t] = "del_finish"
    /\ db' = DbOpened(fault)
    /\ CleanupLeaves(t)
    /\ IF ExecuteSql(frame[t].i, fault) = "raise"
       THEN /\ last' = DeleteEvent(t, "failed", TRUE, fault)
            /\ UNCHANGED <<lastexecuted, cleanbusy>>
       ELSE /\ lastexecuted' = <<frame[t].cur_time>>
            /\ cleanbusy' = FALSE
            /\ last' = DeleteEvent(t, "done", FALSE, fault)
    /\ UNCHANGED <<now, events, calls, passes, py3, abort, global_checksum, win,
                   live, mem_only, delaywrite, exit, queue>>

\* ------------------------------------------------------------ _execute_sql
\* one statement, step by step: _get_database attempt by attempt, then the
\* retry loop turn by turn.  What one open attempt meets: "ok" the probe
\* passes; "corrupt" the probe fails and the file is recreated; "fail" the
\* probe and the recreation both raise.  What one statement attempt meets:
\* "ok"; "locked" sqlite3.OperationalError("database is locked"); "operr"
\* another sqlite3.OperationalError; "exc" another exception.
OpenOutcomes == {"ok", "corrupt", "fail"}
StatementOutcomes == {"ok", "locked", "operr", "exc"}

\* line 246: _execute_sql is entered and calls self._get_database()
Execute(t, i) ==
    /\ pc[t] = "idle"
    /\ live[i]
    /\ calls < MaxCalls
    /\ calls' = calls + 1
    /\ pc' = [pc EXCEPT ![t] = "db_open"]
    /\ frame' = [frame EXCEPT ![t] = [NoFrame EXCEPT !.i = i, !.attempts = OpenAttempts]]
    /\ last' = Event("execute_begin", t, i)
    /\ UNCHANGED <<now, events, passes, py3, abort, global_checksum, win, cleanbusy,
                   lastexecuted, db, busy_tasks, live, mem_only, delaywrite, exit, queue>>

\* what _execute_sql records when it ends: the statement attempts made, what
\* ended it, and "result", "none" or "raise"
ExecuteEvent(t, n, how, ending) ==
    [Event("execute", t, frame[t].i) EXCEPT !.n = n, !.src = how, !.fault = ending,
                                           !.err = (how = "raise")]

\* _get_database, lines 218-238: one attempt.  After the last failed attempt
\* the function returns None and `with None` raises in _execute_sql
OpenDatabase(t, outcome) ==
    /\ pc[t] = "db_open"
    /\ LET f == frame[t]
       IN  IF outcome \in {"ok", "corrupt"}
           THEN /\ db' = DbOpened(outcome)
                /\ pc' = [pc EXCEPT ![t] = "ex_loop"]
                /\ frame' = [frame EXCEPT ![t].opens = f.opens + 1]
                /\ last' = [Event("open_try", t, f.i) EXCEPT !.n = f.opens + 1,
                                                            !.fault = outcome]
           ELSE IF f.attempts < 1
           THEN /\ pc' = [pc EXCEPT ![t] = "idle"]
                /\ frame' = [frame EXCEPT ![t] = NoFrame]
                /\ last' = ExecuteEvent(t, 0, "raise", "noopen")
                /\ UNCHANGED db
           ELSE /\ pc' = [pc EXCEPT ![t] = "db_pause"]
                /\ frame' = [frame EXCEPT ![t].opens = f.opens + 1,
                                          ![t].attempts = f.attempts - 1]
                /\ last' = [Event("open_try", t, f.i) EXCEPT !.n = f.opens + 1,
                                                            !.fault = outcome]
                /\ UNCHANGED db
    /\ UNCHANGED <<now, events, calls, passes, py3, abort, global_checksum, win, cleanbusy,
                   lastexecuted, busy_tasks, live, mem_only, delaywrite, exit, queue>>

\* lines 236-237: self._monitor.waitForAbort(1), whose result is not looked
\* at, then return self._get_database(attempts)
OpenPause(t) ==
    /\ pc[t] = "db_pause"
    /\ pc' = [pc EXCEPT ![t] = "db_open"]
    /\ last' = Event("open_pause", t, frame[t].i)
    /\ UNCHANGED <<now, events, calls, passes, py3, abort, global_checksum, win, cleanbusy,
                   lastexecuted, db, busy_tasks, live, mem_only, delaywrite, exit, queue,
                   frame>>

\* line 270, reached when the loop is left other than by return: the log line
\* formats `error`, which Python 3 has unbound once an except clause bound it
AfterLoop(caught) == IF py3 /\ caught THEN "raise" ELSE "none"

\* lines 247-269: one turn of the retry loop.  On Python 3 the test
\* `"database is locked" in error` raises TypeError, caught on line 266
ExecuteTurn(t, outcome) ==
    /\ pc[t] = "ex_loop"
    /\ LET f == frame[t]
           ends(n, how, ending) ==
               /\ pc' = [pc EXCEPT ![t] = "idle"]
               /\ frame' = [frame EXCEPT ![t] = NoFrame]
               /\ last' = ExecuteEvent(t, n, how, ending)
       IN  IF f.idx = MaxRetries \/ abort
           THEN /\ outcome = "ok"
                /\ ends(f.n, AfterLoop(f.caught), IF abort THEN "abort" ELSE "locked")
           ELSE IF exit[f.i]
           THEN /\ outcome = "ok"
                /\ ends(f.n, "none", "exit")
           ELSE IF outcome = "ok"
           THEN ends(f.n + 1, "result", "ok")
           ELSE IF outcome = "locked"
           THEN IF py3
                THEN ends(f.n + 1, AfterLoop(TRUE), "locked")
                ELSE /\ frame' = [frame EXCEPT ![t].idx = f.idx + 1, ![t].n = f.n + 1,
                                               ![t].caught = TRUE]
                     /\ last' = [Event("execute_try", t, f.i) EXCEPT !.n = f.n + 1,
                                                                    !.fault = outcome]
                     /\ UNCHANGED pc
           ELSE IF outcome = "operr"
           THEN ends(f.n + 1, AfterLoop(TRUE), "operr")
           ELSE ends(f.n + 1, AfterLoop(f.caught), "exc")
    /\ UNCHANGED <<now, events, calls, passes, py3, abort, global_checksum, win, cleanbusy,
                   lastexecuted, db, busy_tasks, live, mem_only, delaywrite, exit, queue>>

\* ------------------------------------------------------------ environment
Tick(step) ==
    /\ events < MaxEvents
    /\ now' = now + step
    /\ events' = events + 1
    /\ last' = [NoEvent EXCEPT !.op = "tick"]
    /\ UNCHANGED <<calls, passes, py3, abort, global_checksum, win, cleanbusy,
                   lastexecuted, db, busy_tasks, live, mem_only, delaywrite, exit, queue,
                   pc, frame>>

\* xbmc.Monitor: the host requests abort
Abort ==
    /\ ~abort
    /\ abort' = TRUE
    /\ last' = [NoEvent EXCEPT !.op = "abort"]
    /\ UNCHANGED <<now, events, calls, passes, py3, global_checksum, win, cleanbusy, lastexecuted,
                   db, busy_tasks, live, mem_only, delaywrite, exit, queue, pc, frame>>

\* no call is in flight
Idle == \A t \in AllThreads : pc[t] = "idle"

\* the addon sets SimpleCache.global_checksum, between calls
SetGlobalChecksum(g) ==
    /\ Idle
    /\ g # global_checksum
    /\ events < MaxEvents
    /\ events' = events + 1
    /\ global_checksum' = g
    /\ last' = [NoEvent EXCEPT !.op = "global_checksum"]
    /\ UNCHANGED <<now, calls, passes, py3, abort, win, cleanbusy, lastexecuted,
                   db, busy_tasks, live, mem_only, delaywrite, exit, queue, pc, frame>>

\* Window(10000) belongs to the host: a property is cleared from outside,
\* between calls
HostClearProperty(endpoint) ==
    /\ Idle
    /\ win[MemKey(endpoint)] # <<>>
    /\ events < MaxEvents
    /\ events' = events + 1
    /\ win' = [win EXCEPT ![MemKey(endpoint)] = <<>>]
    /\ last' = [NoEvent EXCEPT !.op = "clear_property", !.endpoint = endpoint]
    /\ UNCHANGED <<now, calls, passes, py3, abort, global_checksum, cleanbusy, lastexecuted,
                   db, busy_tasks, live, mem_only, delaywrite, exit, queue, pc, frame>>

Env ==
    \/ \E step \in TickSteps : Tick(step)
    \/ Abort
    \/ \E g \in GlobalChecksums : SetGlobalChecksum(g)
    \/ \E e \in Endpoints : HostClearProperty(e)

\* ------------------------------------------------------------ next-state relations
\* construction of the instances in I by the threads in T
Lifecycle(T, I) ==
    \/ \E t \in T, i \in I, mo \in BOOLEAN, dw \in BOOLEAN : Construct(t, i, mo, dw)
    \/ \E t \in T, i \in I : CheckCleanup(t, i)

Reads(T, I, E, C, F) ==
    \E t \in T, i \in I, e \in E, c \in C, f \in F : Get(t, i, e, c, f)

Writes(T, I, E, D, C, L, F) ==
    \/ \E t \in T, i \in I, e \in E, d \in D, c \in C, l \in L : SetBegin(t, i, e, d, c, l)
    \/ \E t \in T : SetMem(t)
    \/ \E t \in T, f \in F : SetStore(t, f)

Closes(T, I, F) ==
    \/ \E t \in T, i \in I : CloseBegin(t, i)
    \/ \E t \in T : CloseWait(t)
    \/ \E t \in T, f \in F : CloseFlush(t, f)
    \/ \E t \in T : CloseClear(t)

DeletesAll(T, I, F) ==
    \/ \E t \in T, i \in I : DoDelete(t, i)
    \/ \E t \in T : DelMark(t)
    \/ \E t \in T, f \in F : DelDelete(t, f)
    \/ \E t \in T, f \in F : DelFinish(t, f)

Executes(T, I) ==
    \/ \E t \in T, i \in I : Execute(t, i)
    \/ \E t \in T, o \in OpenOutcomes : OpenDatabase(t, o)
    \/ \E t \in T : OpenPause(t)
    \/ \E t \in T, o \in StatementOutcomes : ExecuteTurn(t, o)

Cleanups(T, I, F) ==
    \/ \E t \in T, i \in I, force \in BOOLEAN : DoCleanup(t, i, force)
    \/ \E t \in T : ClCheck(t)
    \/ \E t \in T : ClMark(t)
    \/ \E t \in T, f \in F : ClSelect(t, f)
    \/ \E t \in T, f \in F : \E r \in frame[t].rows : ClRow(t, r, f)
    \/ \E t \in T, f \in F : ClFinish(t, f)

\* one caller, one engine: construction, get, set and close follow one another
\* under every fault of the store, while the host advances the clock, changes
\* the override, clears properties and requests abort
Next ==
    \/ Lifecycle({"t1"}, {1})
    \/ Reads({"t1"}, {1}, {"e1"}, Checksums, Faults)
    \/ Writes({"t1"}, {1}, {"e1"}, Data, Checksums, Ttls, Faults)
    \/ Closes({"t1"}, {1}, Faults)
    \/ Env

Spec == Init /\ [][Next]_vars

\* one caller, one engine, two endpoints: set, get and cleanup passes
NextCleanup ==
    \/ Lifecycle({"t1"}, {1})
    \/ Reads({"t1"}, {1}, Endpoints, {StrEmpty}, {"ok"})
    \/ Writes({"t1"}, {1}, Endpoints, {PyStr("a")}, {StrEmpty}, Ttls, {"ok"})
    \/ Cleanups({"t1"}, {1}, {"ok", "locked"})
    \/ \E step \in TickSteps : Tick(step)
    \/ Abort

SpecCleanup == Init /\ [][NextCleanup]_vars

\* two callers, two engines, one endpoint: set, get and close interleave
NextConc ==
    \/ Lifecycle(AllThreads, Insts)
    \/ Reads(AllThreads, Insts, {"e1"}, {StrEmpty}, {"ok"})
    \/ Writes(AllThreads, Insts, {"e1"}, {PyStr("a"), PyStr("b")}, {StrEmpty}, {1}, {"ok"})
    \/ Closes(AllThreads, Insts, {"ok"})
    \/ Abort

SpecConc == Init /\ [][NextConc]_vars

\* two callers, two engines of one namespace, one endpoint: set and cleanup
\* passes interleave
NextCleanupConc ==
    \/ Lifecycle(AllThreads, Insts)
    \/ Writes(AllThreads, Insts, {"e1"}, {PyStr("a")}, {StrEmpty}, {1}, {"ok", "locked"})
    \/ Cleanups(AllThreads, Insts, {"ok"})

SpecCleanupConc == Init /\ [][NextCleanupConc]_vars

\* one caller, one engine: single statements run step by step, before and
\* after close and abort
NextExecute ==
    \/ Lifecycle({"t1"}, {1})
    \/ Executes({"t1"}, {1})
    \/ Closes({"t1"}, {1}, {"ok"})
    \/ Abort

SpecExecute == Init /\ [][NextExecute]_vars

\* one caller, one engine, two endpoints: set, get and _do_delete on a healthy
\* or locked store
NextDelete ==
    \/ Lifecycle({"t1"}, {1})
    \/ Reads({"t1"}, {1}, Endpoints, {StrEmpty}, {"ok"})
    \/ Writes({"t1"}, {1}, Endpoints, {PyStr("a")}, {StrEmpty}, {1}, {"ok"})
    \/ DeletesAll({"t1"}, {1}, {"ok", "locked"})
    \/ Abort

SpecDelete == Init /\ [][NextDelete]_vars

\* ------------------------------------------------------------ properties
\* the value of an entry (a property's triple or a row) still valid now
Unexpired(entry) == entry # <<>> /\ entry[1].expires > now
Value(entry) == JsonLoads(entry[1].data)

\* the engine of the last call reads and writes the durable tier, and the
\* store ran its statements
ReadsDurable == /\ ~mem_only[last.i] /\ ~exit[last.i] /\ ~abort /\ last.fault = "ok"

\* C1: with deferred write and not mem-only, after close() has returned and no
\* abort has fired, the queue is empty and every queued endpoint's row holds
\* the data of its last queued set
C1_CloseFlushesQueue ==
    (/\ last.op = "close" /\ ~last.err /\ last.fault = "ok" /\ ~abort
     /\ delaywrite[last.i] /\ ~mem_only[last.i])
    => /\ queue[last.i] = <<>>
       /\ \A k \in 1..Len(last.q) :
            (\A m \in (k + 1)..Len(last.q) : last.q[m].endpoint # last.q[k].endpoint)
            => /\ db[last.q[k].endpoint] # <<>>
               /\ db[last.q[k].endpoint][1].data = JsonDumps(last.q[k].data)

C5_EmptyChecksumEveryOverride ==
    (last.op = "get" /\ last.cin = <<>>)
    => /\ Unexpired(last.mem) => last.val = <<Value(last.mem)>>
       /\ (~Unexpired(last.mem) /\ ReadsDurable /\ Unexpired(last.row))
          => last.val = <<Value(last.row)>>

\* C5, amended: with global_checksum unset, a get with an empty checksum
\* returns the unexpired ephemeral value, else the unexpired durable value the
\* engine can read, whatever the stored checksum; with global_checksum set the
\* empty checksum stands for the fingerprint of "<override>-" and a value is
\* returned only from an entry stored with that fingerprint
C5_EmptyChecksum ==
    (last.op = "get" /\ last.cin = <<>>)
    => /\ global_checksum = <<>>
          => /\ Unexpired(last.mem) => last.val = <<Value(last.mem)>>
             /\ (~Unexpired(last.mem) /\ ReadsDurable /\ Unexpired(last.row))
                => last.val = <<Value(last.row)>>
       /\ (global_checksum # <<>> /\ last.val # <<>>)
          => \E entry \in {last.mem, last.row} :
                /\ Unexpired(entry)
                /\ entry[1].checksum = SumOrd(global_checksum \o <<45>>)
                /\ last.val = <<Value(entry)>>

C5_Witness ==
    /\ last.op = "get" /\ last.cin = <<>> /\ global_checksum = <<>>
    /\ Unexpired(last.mem) /\ last.mem[1].checksum = SumOrd(StrV1)
    /\ last.val = <<Value(last.mem)>>

\* C6: a get with a non-empty checksum returns the value of an unexpired entry
\* whose stored fingerprint equals the fingerprint derived from that checksum,
\* from the ephemeral tier or else from the durable tier, and returns nothing
\* when no unexpired entry of the endpoint has that fingerprint
C6_ChecksumGating ==
    (last.op = "get" /\ last.cin # <<>>)
    => LET fp == GetChecksum(last.cin)
           memOk == Unexpired(last.mem) /\ last.mem[1].checksum = fp
           rowOk == Unexpired(last.row) /\ last.row[1].checksum = fp
       IN  /\ memOk => last.val = <<Value(last.mem)>>
           /\ (~memOk /\ rowOk /\ ReadsDurable) => last.val = <<Value(last.row)>>
           /\ (~memOk /\ ~rowOk) => last.val = <<>>

\* a hit on a colliding checksum ("1v" for "v1") from the durable tier, and a
\* miss on another checksum
C6_Witness ==
    /\ last.op = "get" /\ last.cin = Str1V
    /\ last.mem = <<>> /\ Unexpired(last.row) /\ last.row[1].checksum = SumOrd(StrV1)
    /\ last.val = <<Value(last.row)>>

C8_RepopulatesTheRow ==
    (/\ last.op = "get" /\ last.mem = <<>> /\ ReadsDurable
     /\ Unexpired(last.row) /\ last.val # <<>>)
    => /\ last.val = <<Value(last.row)>>
       /\ win[MemKey(last.endpoint)] = last.row

\* C9: no call ends in an error, whatever the store does
C9_NoErrorReachesCaller == ~last.err

\* every engine constructed so far writes through, none has been closed and
\* no abort has been requested
AllWriteThrough ==
    /\ ~abort
    /\ \A i \in Insts : live[i] => (~mem_only[i] /\ ~delaywrite[i] /\ ~exit[i])

\* C3, as stated: once concurrent write-through sets of one endpoint have
\* returned, both tiers hold the same data for it
C3_TiersAgree ==
    (/\ Idle /\ AllWriteThrough
     /\ win[MemKey("e1")] # <<>> /\ db["e1"] # <<>>)
    => win[MemKey("e1")][1].data = db["e1"][1].data

\* C3, amended: the tiers are written separately and may end up holding the
\* data of different sets; the durable row is that of the write-through set
\* whose durable write came last, and a subsequent get returns the data of the
\* unexpired ephemeral entry, that of the set whose ephemeral write came last
C3_EachTierLastWriter ==
    /\ (last.op = "set" /\ AllWriteThrough)
       => db[last.endpoint] = <<Row(last.checksum, last.expires, last.data[1])>>
    /\ (last.op = "get" /\ Unexpired(last.mem)) => last.val = <<Value(last.mem)>>
    /\ \A t \in AllThreads :
          (pc[t] = "set_store" /\ last.op = "set_mem" /\ last.t = t)
          => win[MemKey(frame[t].endpoint)] =
                <<Row(frame[t].checksum, frame[t].expires, frame[t].data[1])>>

\* the tiers differ after two sets and the get returns the ephemeral data
C3_Witness ==
    /\ last.op = "get" /\ AllWriteThrough
    /\ last.mem # <<>> /\ last.row # <<>>
    /\ last.mem[1].data # last.row[1].data
    /\ last.val = <<Value(last.mem)>>

\* C4: unless abort has been requested, no set on an engine is in flight
\* between the moment close() on that engine leaves its wait loop and the
\* moment it has cleared the queue
C4_CloseIsBarrier ==
    \A t \in AllThreads, u \in AllThreads :
        (/\ pc[t] \in {"close_flush", "close_clear"} /\ ~abort
         /\ pc[u] \in {"set_mem", "set_store"})
        => frame[u].i # frame[t].i

\* C10: with no exit and no abort signalled, a healthy store and no
\* cleanup-busy marker set, a forced cleanup pass ends without an error, has
\* washed up, and leaves the table empty; run again at once it finds no row
\* and ends the same way
C10_ForcedCleanupTwice ==
    (/\ last.op = "cleanup" /\ last.val = <<"force">> /\ last.src # "skipped"
     /\ ~exit[last.i] /\ ~abort /\ last.fault = "ok")
    => /\ ~last.err
       /\ last.src = "done"
       /\ db = EmptyTable
       /\ ~cleanbusy
       /\ last.prev # <<>> => last.n = 0

\* the second of two forced passes in succession has returned; the first one
\* found rows
C10_Witness ==
    /\ last.op = "cleanup" /\ last.val = <<"force">> /\ last.src = "done"
    /\ ~abort /\ last.fault = "ok"
    /\ last.prev # <<>> /\ last.prev[1] >= 1
    /\ db = EmptyTable

\* C11, as stated: check_cleanup on an engine that is not mem-only, not
\* exiting and not aborted starts a cleanup pass whenever the last-executed
\* marker is present and now - lastExecuted >= the cleanup interval
C11_CleanupWhenDue ==
    (/\ last.op = "check_cleanup" /\ ~mem_only[last.i] /\ ~exit[last.i] /\ ~abort
     /\ lastexecuted # <<>> /\ now - lastexecuted[1] >= auto_clean_interval)
    => pc[last.t] = "cl_check"

\* C12: a cleanup pass that has set the cleanup-busy marker has cleared it and
\* recorded the time it started as the last-executed marker when it returns,
\* also when the enumeration was abandoned because exit or abort was signalled
C12_PassWashesUp ==
    (last.op = "cleanup" /\ last.src \in {"done", "abandoned"})
    => /\ ~cleanbusy
       /\ lastexecuted = <<last.cur_time>>

\* C14: after a cleanup pass that ran to completion, the ephemeral entry set and
\* get use (the namespaced key) is absent for every row the pass enumerated
C14_ClearsEntriesOfRows ==
    (last.op = "cleanup" /\ last.src = "done")
    => \A r \in last.rows : win[MemKey(r.id)] = <<>>

\* C15: a non-forced cleanup pass deletes a row only if its expires is strictly
\* less than the time the pass started: while the pass enumerates, every row
\* selected with expires >= that time is still there unchanged, and when the
\* pass has run to completion on a store that ran its statements the table
\* holds exactly those rows
C15_DeletesOnlyExpired ==
    /\ \A t \in AllThreads :
          (pc[t] = "cl_row" /\ ~frame[t].force)
          => \A e \in Endpoints :
                (frame[t].table[e] # <<>> /\ frame[t].table[e][1].expires >= frame[t].cur_time)
                => db[e] = frame[t].table[e]
    /\ (/\ last.op = "cleanup" /\ last.src = "done" /\ last.val = <<>>
        /\ last.fault = "ok")
       => db = [e \in Endpoints |->
                  IF last.table[e] # <<>> /\ last.table[e][1].expires >= last.cur_time
                  THEN last.table[e] ELSE <<>>]

\* a completed non-forced pass that deleted a row expired before it started
\* and kept a row expiring at or after that time
C15_Witness ==
    /\ last.op = "cleanup" /\ last.src = "done" /\ last.val = <<>> /\ last.fault = "ok"
    /\ \E e \in Endpoints : last.table[e] # <<>> /\ db[e] = <<>>
    /\ \E e \in Endpoints : db[e] # <<>> /\ db[e][1].expires >= last.cur_time

\* C13: at most one cleanup pass is past the cleanup-busy check, enumerating or
\* deleting rows, at a time
C13_OnePassAtATime ==
    Cardinality({t \in AllThreads : pc[t] \in {"cl_select", "cl_row"}}) <= 1

\* C16: a statement that stays locked is attempted exactly 10 times and the
\* call returns nothing; a statement that succeeds returns its result within
\* 10 attempts; a failure that is not a lock ends the call at that attempt
\* with nothing returned; no call ends in an error
C16_RetriesOnlyWhenLocked ==
    last.op = "execute"
    => /\ last.fault = "locked" => (last.n = MaxRetries /\ last.src = "none")
       /\ last.fault = "ok" => (last.src = "result" /\ last.n <= MaxRetries)
       /\ last.fault \in {"operr", "exc"} => last.src = "none"

\* C18: once abort has been requested no statement attempt is made and no
\* open or recreate attempt follows a pause of _get_database
C18_NoWorkAfterAbort ==
    /\ last.op = "execute_try" => ~abort
    /\ (last.op = "open_try" /\ last.n > 1) => ~abort

\* the label a thread holds in the busy-task list: "set.<endpoint>" from the
\* entry of set to its return, the module name inside a cleanup pass
InFlight(t) ==
    IF pc[t] \in {"set_mem", "set_store"} THEN SetToBag({SetLabel(frame[t].endpoint)})
    ELSE IF pc[t] \in {"cl_check", "cl_mark", "cl_select", "cl_row",
                       "del_mark", "del_delete", "del_finish"} THEN SetToBag({ModuleLabel})
    ELSE EmptyBag

\* C17: the busy-task multiset is exactly the labels of the calls in flight,
\* one per call, whatever way earlier calls ended, and is empty when no call
\* is in flight
C17_BusyIsInFlight ==
    /\ busy_tasks = InFlight("t1") (+) InFlight("t2")
    /\ Idle => busy_tasks = EmptyBag

\* a set ended in an error while another set of the same endpoint was in
\* flight, and one label of the two is left
C17_Witness ==
    /\ last.op = "set" /\ last.err
    /\ \E t \in AllThreads : pc[t] \in {"set_mem", "set_store"}
    /\ busy_tasks = SetToBag({SetLabel("e1")})

\* C19: _do_delete does not start deleting when the cleanup-busy marker is
\* already set, and when it completes on a healthy store with no abort
\* requested the table is empty and the ephemeral entry of every endpoint that had a row is absent
C19_DeleteAllClearsBothTiers ==
    /\ last.op = "del_mark" => last.val = <<>>
    /\ (last.op = "delete" /\ last.src = "done" /\ last.fault = "ok" /\ ~abort)
       => /\ db = EmptyTable
          /\ \A e \in Endpoints : last.table[e] # <<>> => win[MemKey(e)] = <<>>

\* C20 as stated: once one engine has its exit flag set, every other live
\* engine has it set too
C20_ExitIsShared ==
    \A i \in Insts, j \in Insts : (live[i] /\ live[j] /\ exit[i]) => exit[j]

\* C20: close sets the exit flag of the engine it is called on and leaves the
\* flag of every other engine as it was, and a write-through set on an engine
\* that was not closed still writes its row
C20_ExitIsPerInstance ==
    /\ last.op = "close_begin"
       => \A j \in Insts \ {last.i} : exit[j] = last.prev[1][j]
    /\ (/\ last.op = "set" /\ last.fault = "ok" /\ ~last.err
        /\ ~mem_only[last.i] /\ ~delaywrite[last.i] /\ ~exit[last.i] /\ ~abort)
       => /\ db[last.endpoint] # <<>>
          /\ db[last.endpoint][1].expires = last.expires

\* a write-through set on an open engine wrote its row after the other engine
\* was closed
C20_Witness ==
    /\ last.op = "set" /\ last.fault = "ok" /\ ~last.err
    /\ ~mem_only[last.i] /\ ~delaywrite[last.i] /\ ~exit[last.i] /\ ~abort
    /\ \E j \in Insts \ {last.i} : live[j] /\ exit[j]
    /\ db[last.endpoint] # <<>>
====
